---- MODULE Spec2Model ----
(***************************************************************************)
(* Model of the box-classification head of MaskRCNN/model/boxclass_head:   *)
(* boxclass_predictions (score filter, per-class offset, greedy NMS),      *)
(* boxclass_losses, and the BoxClassHead object (add_training_info,        *)
(* losses, decoded_output_boxes*, output_scores).                          *)
(* Tensors are functions over 0-based index ranges, as in the source.      *)
(***************************************************************************)
EXTENDS Integers, Sequences, FiniteSets, TLC

VARIABLES
  boxes, scores, thresh,     \* inputs of boxclass_predictions and cfg.TEST.RESULT_SCORE_THRESH
  ppc, final,                \* position of the prediction pass and its four outputs
  head,                      \* the fields BoxClassHead.__init__ stores
  info,                      \* the fields add_training_info stores
  training_info_available,
  cache,                     \* the memoized results of the head's methods
  ret,                       \* what the last method call returned or raised
  ncalls                     \* method calls made on the head so far

pvars == <<boxes, scores, thresh, ppc, final>>
hvars == <<head, info, training_info_available, cache, ret, ncalls>>
vars == <<boxes, scores, thresh, ppc, final, head, info, training_info_available, cache, ret, ncalls>>

-----------------------------------------------------------------------------
(* Bounds of the prediction model *)
NumProposals == 2
MaxScore == 2
NegShift == 4
(* cfg.DATA.NUM_CLASS, cfg.TEST.RESULTS_PER_IM, cfg.TEST.RESULT_SCORE_THRESH *)
NUM_CLASS == 3
RESULTS_PER_IM == 2
RESULT_SCORE_THRESH == 0
(* cfg.TEST.FRCNN_NMS_THRESH = NmsThreshNum / NmsThreshDen *)
NmsThreshNum == 1
NmsThreshDen == 2

Rows == 0 .. (NumProposals - 1)
Cols == 0 .. (NUM_CLASS - 1)
Cats == 0 .. (NUM_CLASS - 2)
(* axis-aligned boxes <<x1, y1, x2, y2>>: the first overlaps each of the  *)
(* other two by more than the NMS threshold, which overlap each other less *)
BoxPool == { <<0, 0, 3, 1>>, <<0, 0, 2, 1>>, <<1, 0, 3, 1>> }
(* the whole grid may lie at the origin or NegShift to the lower left *)
Translations == { 0, 0 - NegShift }
ScoreVals == 0 .. MaxScore

RECURSIVE RowSum(_, _)
RowSum(row, c) == IF c < 0 THEN 0 ELSE row[c] + RowSum(row, c - 1)
(* a row of scores: the softmax over the NUM_CLASS columns sums to one,   *)
(* here MaxScore                                                           *)
ScoreRows == { row \in [Cols -> ScoreVals] : RowSum(row, NUM_CLASS - 1) = MaxScore }

Max(a, b) == IF a >= b THEN a ELSE b
Min(a, b) == IF a <= b THEN a ELSE b

-----------------------------------------------------------------------------
(* boxclass_predictions *)

(* boxes = tf.transpose(boxes, [1, 0, 2])[1:, :, :]   -- #cat x n x 4 *)
CatBoxes(bx) == [c \in Cats |-> [r \in Rows |-> bx[r][c + 1]]]

(* scores = tf.transpose(scores[:, 1:], [1, 0])       -- #cat x n *)
CatScores(sc) == [c \in Cats |-> [r \in Rows |-> sc[r][c + 1]]]

SetMax(S) == CHOOSE m \in S : \A x \in S : x <= m

(* max_coord = tf.reduce_max(boxes) *)
ReduceMax(cb) == SetMax({ cb[c][r][i] : c \in Cats, r \in Rows, i \in 1 .. 4 })

(* all index pairs <<cat, row>> of a #cat x n tensor in row-major order *)
AllIds == [k \in 1 .. ((NUM_CLASS - 1) * NumProposals) |->
             <<(k - 1) \div NumProposals, (k - 1) % NumProposals>>]

PassGeq(s, t) == s >= t
PassBelow(s, t) == s < t
(* scores > cfg.TEST.RESULT_SCORE_THRESH *)
Pass(s, t) == s > t

(* filtered_ids = tf.where(scores > thresh)           -- F x 2 *)
FilteredIds(cs, t) == SelectSeq(AllIds, LAMBDA id : Pass(cs[id[1]][id[2]], t))

(* tf.gather_nd(x, filtered_ids) *)
GatherNd(x, ids) == [k \in 1 .. Len(ids) |-> x[ids[k][1]][ids[k][2]]]

(* cls_per_box = tf.slice(filtered_ids, [0, 0], [-1, 1]) *)
ClsPerBox(ids) == [k \in 1 .. Len(ids) |-> ids[k][1]]

(* offsets = cls_per_box * (max_coord + 1); filtered_boxes + offsets *)
OffsetBoxes(fb, cls, maxc) ==
  [k \in 1 .. Len(fb) |-> [i \in 1 .. 4 |-> fb[k][i] + cls[k] * (maxc + 1)]]

(* tf.image.non_max_suppression: overlap of two boxes, as the pair        *)
(* <<intersection area, union area>>; a box of no area overlaps nothing   *)
Area(b) == (Max(b[1], b[3]) - Min(b[1], b[3])) * (Max(b[2], b[4]) - Min(b[2], b[4]))
InterArea(a, b) ==
  LET w == Min(Max(a[1], a[3]), Max(b[1], b[3])) - Max(Min(a[1], a[3]), Min(b[1], b[3]))
      h == Min(Max(a[2], a[4]), Max(b[2], b[4])) - Max(Min(a[2], a[4]), Min(b[2], b[4]))
  IN  Max(w, 0) * Max(h, 0)
IoUAbove(a, b) ==
  /\ Area(a) > 0
  /\ Area(b) > 0
  /\ InterArea(a, b) * NmsThreshDen > NmsThreshNum * (Area(a) + Area(b) - InterArea(a, b))

(* the candidate NMS looks at next: the best score, the earliest index   *)
(* among equal scores                                                      *)
Best(sc, remaining) ==
  CHOOSE i \in remaining : \A j \in remaining : sc[i] > sc[j] \/ (sc[i] = sc[j] /\ i <= j)

RECURSIVE NmsGreedy(_, _, _, _, _)
NmsGreedy(bxs, sc, remaining, selected, cap) ==
  IF remaining = {} \/ Len(selected) >= cap THEN selected
  ELSE LET i == Best(sc, remaining)
           keep == \A k \in 1 .. Len(selected) : ~IoUAbove(bxs[i], bxs[selected[k]])
       IN  NmsGreedy(bxs, sc, remaining \ {i}, IF keep THEN Append(selected, i) ELSE selected, cap)

(* selection = tf.image.non_max_suppression(boxes, scores, max_output_size, iou_threshold) *)
NonMaxSuppression(bxs, sc, cap) == NmsGreedy(bxs, sc, 1 .. Len(sc), <<>>, cap)

(* tf.gather(x, selection) *)
Gather(x, sel) == [k \in 1 .. Len(sel) |-> x[sel[k]]]

FinalLabelsNoShift(cls, sel) == Gather(cls, sel)
(* final_labels = tf.add(tf.gather(cls_per_box[:, 0], selection), 1) *)
FinalLabels(cls, sel) == [k \in 1 .. Len(sel) |-> cls[sel[k]] + 1]

boxclass_predictions(bx, sc, t) ==
  LET cb == CatBoxes(bx)
      cs == CatScores(sc)
      max_coord == ReduceMax(cb)
      filtered_ids == FilteredIds(cs, t)
      filtered_boxes == GatherNd(cb, filtered_ids)
      filtered_scores == GatherNd(cs, filtered_ids)
      cls_per_box == ClsPerBox(filtered_ids)
      selection == NonMaxSuppression(OffsetBoxes(filtered_boxes, cls_per_box, max_coord),
                                     filtered_scores, RESULTS_PER_IM)
      filtered_selection == Gather(filtered_ids, selection)
  IN  [boxes |-> Gather(filtered_boxes, selection),
       scores |-> Gather(filtered_scores, selection),
       labels |-> FinalLabels(cls_per_box, selection),
       box_ids |-> [k \in 1 .. Len(selection) |-> filtered_selection[k][2]]]

NoOutput == [boxes |-> <<>>, scores |-> <<>>, labels |-> <<>>, box_ids |-> <<>>]

(* the box of class column c of a proposal whose class-1 box is b: the    *)
(* per-class regression moves the box by d per class, and the grid lies    *)
(* at translation t                                                        *)
ClassBox(b, c, d, t) == [i \in 1 .. 4 |-> b[i] + (c - 1) * d + t]

NoHead == [constructed |-> FALSE]
NoInfo == [attached |-> FALSE]
NoRet == [method |-> "none"]

HeadIdle ==
  /\ head = NoHead
  /\ info = NoInfo
  /\ training_info_available = FALSE
  /\ cache = <<>>
  /\ ret = NoRet
  /\ ncalls = 0

PredInit ==
  /\ HeadIdle
  /\ \E pb \in [Rows -> BoxPool], d \in {0, 1}, t \in Translations :
        boxes = [r \in Rows |-> [c \in Cols |-> ClassBox(pb[r], c, d, t)]]
  /\ scores \in [Rows -> ScoreRows]
  /\ thresh = RESULT_SCORE_THRESH
  /\ ppc = "start"
  /\ final = NoOutput

Predict ==
  /\ ppc = "start"
  /\ final' = boxclass_predictions(boxes, scores, thresh)
  /\ ppc' = "done"
  /\ UNCHANGED <<boxes, scores, thresh>>
  /\ UNCHANGED hvars

PredNext == Predict

PredSpec == PredInit /\ [][PredNext]_vars

NumDet == Len(final.boxes)
Dets == 1 .. NumDet
(* the (row, column) pairs of the input grid that pass the score threshold *)
Passing == { rc \in Rows \X (Cols \ {0}) : scores[rc[1]][rc[2]] > thresh }
Returned(r, c) == \E k \in Dets : final.box_ids[k] = r /\ final.labels[k] = c

(* C1: a candidate of one class is never suppressed by a candidate of    *)
(* another class: with a result cap that holds every candidate, a          *)
(* candidate is left out only if a returned candidate of its own class     *)
(* overlaps it by more than the NMS threshold; so two candidates of        *)
(* different classes with identical coordinates are both returned.         *)
C1_NoCrossClassSuppression ==
  (ppc = "done" /\ Cardinality(Passing) <= RESULTS_PER_IM) =>
    \A p \in Passing :
      ~Returned(p[1], p[2]) =>
        \E q \in Passing :
          /\ q[2] = p[2] /\ q # p
          /\ Returned(q[1], q[2])
          /\ IoUAbove(boxes[p[1]][p[2]], boxes[q[1]][q[2]])

(* C2: every returned detection comes from a non-background column and    *)
(* has a score strictly above the threshold; a pair at or below the       *)
(* threshold is never returned; with no passing pair all four outputs are *)
(* empty.                                                                  *)
C2_OnlyAboveThreshold ==
  ppc = "done" =>
    /\ Len(final.scores) = NumDet /\ Len(final.labels) = NumDet /\ Len(final.box_ids) = NumDet
    /\ \A k \in Dets :
          /\ final.labels[k] \in Cols \ {0}
          /\ final.box_ids[k] \in Rows
          /\ final.scores[k] > thresh
          /\ scores[final.box_ids[k]][final.labels[k]] > thresh
    /\ \A r \in Rows, c \in Cols : scores[r][c] <= thresh => ~Returned(r, c)
    /\ Passing = {} => final = NoOutput

C2_Witness ==
  /\ ppc = "done"
  /\ NumDet >= 1
  /\ \E r \in Rows, c \in Cols \ {0} : scores[r][c] = thresh
  /\ \E r \in Rows : scores[r][0] > thresh

C2_WitnessEmpty == ppc = "done" /\ Passing = {} /\ final = NoOutput

(* C3: a returned detection k carries the original input box and score of *)
(* (box_ids[k], labels[k]), the label being the column index in the       *)
(* background-included numbering; no returned box carries the NMS offset. *)
C3_OriginalTriples ==
  ppc = "done" =>
    \A k \in Dets :
      LET r == final.box_ids[k]
          c == final.labels[k]
      IN  /\ c \in Cols \ {0}
          /\ r \in Rows
          /\ final.boxes[k] = boxes[r][c]
          /\ final.scores[k] = scores[r][c]

C3_Witness ==
  /\ ppc = "done"
  /\ \E k \in Dets : final.labels[k] = 2 /\ ReduceMax(CatBoxes(boxes)) + 1 # 0
  /\ \E j, k \in Dets : final.labels[j] # final.labels[k] /\ final.boxes[j] # final.boxes[k]

(* C4: raising the score threshold never increases the number of          *)
(* detections.                                                             *)
C4_ThresholdMonotone ==
  ppc = "done" =>
    \A t2 \in ScoreVals :
      t2 >= thresh => Len(boxclass_predictions(boxes, scores, t2).boxes) <= NumDet

C4_Witness ==
  /\ ppc = "done"
  /\ \E t2 \in ScoreVals :
        /\ t2 > thresh
        /\ Len(boxclass_predictions(boxes, scores, t2).boxes) < NumDet
        /\ Len(boxclass_predictions(boxes, scores, t2).boxes) >= 1
  /\ NumDet < Cardinality(Passing)

-----------------------------------------------------------------------------
(* BoxClassHead: the flattened batch and its training information *)

NumBoxes == 3
BatchSize == 2
MaxGT == 2
MaxCalls == 4

Props == 0 .. (NumBoxes - 1)
Images == 0 .. (BatchSize - 1)
PropSeq == [k \in 1 .. NumBoxes |-> k - 1]
Positions(x) == [k \in 1 .. Len(x) |-> k]
(* the rows of proposal_boxes as a sequence *)
PropSeqRows(h) == [k \in 1 .. NumBoxes |-> h.proposal_boxes[k - 1]]

(* prepadding_gt_counts: image i has Min(i + 1, MaxGT) real ground-truth boxes *)
GtCount(i) == Min(i + 1, MaxGT)
(* gt_boxes: BS x Num_gt_boxes x 4, padded; each box a distinct value *)
GtBoxes == [i \in Images |-> [g \in 0 .. (MaxGT - 1) |-> <<"gt", i, g>>]]
RegressionWeights == "w"

(* BoxClassHead.__init__: box_logits has K class slots, proposal row p is  *)
(* tagged with image tag[p], label_logits[p] has its argmax at column      *)
(* p % 2                                                                   *)
BoxClassHead(K, tag) ==
  [box_logits |-> [p \in Props |-> [c \in 0 .. (K - 1) |-> <<"reg", p, c>>]],
   label_logits |-> [p \in Props |-> [id |-> p, argmax |-> p % 2]],
   bbox_regression_weights |-> RegressionWeights,
   prepadding_gt_counts |-> [i \in Images |-> GtCount(i)],
   proposal_boxes |-> [p \in Props |-> [img |-> tag[p], box |-> <<"roi", p>>]],
   bbox_class_agnostic |-> (K = 1)]

(* int(box_logits.shape[1]) *)
Slots(h) == Cardinality(DOMAIN h.box_logits[0])

(* the arguments of add_training_info as the sampling stage builds them:  *)
(* the foreground rows are the rows with a label > 0, in row order, and    *)
(* image i lists the ground-truth id of each of its foreground rows        *)
TrainingInfo(h, lbl, gtsel) ==
  LET fg == SelectSeq(PropSeq, LAMBDA p : lbl[p] > 0)
  IN  [gt_boxes |-> GtBoxes,
       proposal_labels |-> lbl,
       proposal_fg_inds |-> fg,
       proposal_fg_boxes |-> Gather(h.proposal_boxes, fg),
       proposal_fg_labels |-> Gather(lbl, fg),
       proposal_gt_id_for_each_fg |->
         [i \in Images |->
            LET mine == SelectSeq(fg, LAMBDA p : h.proposal_boxes[p].img = i)
            IN  [k \in 1 .. Len(mine) |-> gtsel[mine[k]]]]]

(* the ground-truth box a row is matched to: one of the real boxes of its *)
(* image, varying with the row                                             *)
GtSel(h) ==
  [p \in Props |->
     IF h.proposal_boxes[p].img \in Images
     THEN p % h.prepadding_gt_counts[h.proposal_boxes[p].img]
     ELSE 0]

-----
(* boxclass_losses *)

(* not a number, as the fraction 0 / 0 *)
NaN == <<0, 0>>
Zero == <<0, 1>>
(* tf.truediv(a, b) as the fraction <<a, b>>; x / 0 is not a number *)
TrueDiv(a, b) == IF b = 0 THEN NaN ELSE IF a = 0 THEN Zero ELSE <<a, b>>

RECURSIVE SeqSum(_)
SeqSum(x) == IF Len(x) = 0 THEN 0 ELSE x[1] + SeqSum(Tail(x))

(* tf.reduce_mean(x); the mean of no element is not a number *)
ReduceMean(x) == TrueDiv(SeqSum(x), Len(x))

WhereUnguarded(c, a, b) == b
(* tf.where(c, a, b) on scalars *)
WhereScalar(c, a, b) == IF c THEN a ELSE b

(* tf.where(labels > 0)[:, 0] *)
FgInds(labels) == SelectSeq(Positions(labels), LAMBDA k : labels[k] > 0)

RowOnlyIndices(num_fg, fg_labels) == [k \in 1 .. num_fg |-> <<k, 0>>]
(* indices = tf.stack([tf.range(num_fg), fg_labels], axis=1) *)
StackIndices(num_fg, fg_labels) == [k \in 1 .. num_fg |-> <<k, fg_labels[k]>>]

boxclass_losses(labels, label_logits, fg_boxes, fg_box_logits, K) ==
  LET fg_inds == FgInds(labels)
      fg_labels == Gather(labels, fg_inds)
      num_fg == Len(fg_inds)
      empty_fg == (num_fg = 0)
      indices == StackIndices(num_fg, fg_labels)
      gather_ok == \/ K = 1
                   \/ \A k \in 1 .. num_fg :
                        indices[k][1] <= Len(fg_box_logits) /\ indices[k][2] \in 0 .. (K - 1)
      rows == IF K > 1
              THEN [k \in 1 .. num_fg |-> fg_box_logits[indices[k][1]][indices[k][2]]]
              ELSE [k \in 1 .. Len(fg_box_logits) |-> fg_box_logits[k][0]]
      prediction == [k \in 1 .. Len(label_logits) |-> label_logits[k].argmax]
      correct == [k \in 1 .. Len(labels) |-> IF prediction[k] = labels[k] THEN 1 ELSE 0]
      fg_label_pred == Gather(prediction, fg_inds)
      num_zero == Len(SelectSeq(fg_label_pred, LAMBDA a : a = 0))
      false_negative == WhereScalar(empty_fg, Zero, TrueDiv(num_zero, num_fg))
      fg_accuracy == WhereScalar(empty_fg, Zero, ReduceMean(Gather(correct, fg_inds)))
  IN  IF ~gather_ok THEN [status |-> "error", what |-> "gather_nd index out of range"]
      ELSE IF Len(rows) # Len(fg_boxes) THEN [status |-> "error", what |-> "huber_loss shapes differ"]
      ELSE [status |-> "ok",
            labels |-> labels,
            label_loss |-> [labels |-> labels, logits |-> label_logits],
            box_loss |-> [target |-> fg_boxes, pred |-> rows, denom |-> Len(labels)],
            accuracy |-> ReduceMean(correct),
            fg_accuracy |-> fg_accuracy,
            false_negative |-> false_negative,
            num_fg |-> num_fg]

-----------------------------------------------------------------------------
(* BoxClassHead.losses *)

(* encode_bbox_target(boxes, anchors) * bbox_regression_weights, per row  *)
EncodeBboxTarget(gts, anchors, w) ==
  [k \in 1 .. Len(gts) |-> <<"enc", gts[k], anchors[k], w>>]

(* tf.where(tf.equal(rows[:, 0], i)), squeezed *)
RowsOfImage(rows, i) == SelectSeq(Positions(rows), LAMBDA k : rows[k].img = i)

FgLogitRowsDirect(inf, idx) == [k \in 1 .. Len(idx) |-> idx[k] - 1]
(* tf.gather(self.proposal_fg_inds, single_image_fg_boxes_indices) *)
FgLogitRows(inf, idx) == Gather(inf.proposal_fg_inds, idx)

(* one pass of the loop body over image i *)
SingleImage(h, inf, i) ==
  LET single_image_fg_inds_wrt_gt == inf.proposal_gt_id_for_each_fg[i]
      single_image_gt_boxes == [g \in 0 .. (h.prepadding_gt_counts[i] - 1) |-> inf.gt_boxes[i][g]]
      gt_for_each_fg == Gather(single_image_gt_boxes, single_image_fg_inds_wrt_gt)
      single_image_fg_boxes_indices == RowsOfImage(inf.proposal_fg_boxes, i)
      single_image_fg_boxes ==
        [k \in 1 .. Len(single_image_fg_boxes_indices) |->
           inf.proposal_fg_boxes[single_image_fg_boxes_indices[k]].box]
      single_image_box_indices ==
        [k \in 1 .. Len(RowsOfImage(PropSeqRows(h), i)) |-> RowsOfImage(PropSeqRows(h), i)[k] - 1]
  IN  [shape_ok |-> Len(gt_for_each_fg) = Len(single_image_fg_boxes),
       labels |-> Gather(inf.proposal_labels, single_image_box_indices),
       label_logits |-> Gather(h.label_logits, single_image_box_indices),
       encoded_fg_gt_boxes |->
         IF Len(gt_for_each_fg) = Len(single_image_fg_boxes)
         THEN EncodeBboxTarget(gt_for_each_fg, single_image_fg_boxes, h.bbox_regression_weights)
         ELSE <<>>,
       fg_box_logits |-> Gather(h.box_logits, FgLogitRows(inf, single_image_fg_boxes_indices))]

(* the four accumulated lists after the images 0 .. n-1, concatenated *)
RECURSIVE AllImages(_, _, _)
AllImages(h, inf, n) ==
  IF n = 0
  THEN [shape_ok |-> TRUE, labels |-> <<>>, label_logits |-> <<>>,
        encoded_fg_gt_boxes |-> <<>>, fg_box_logits |-> <<>>]
  ELSE LET acc == AllImages(h, inf, n - 1)
           one == SingleImage(h, inf, n - 1)
       IN  [shape_ok |-> acc.shape_ok /\ one.shape_ok,
            labels |-> acc.labels \o one.labels,
            label_logits |-> acc.label_logits \o one.label_logits,
            encoded_fg_gt_boxes |-> acc.encoded_fg_gt_boxes \o one.encoded_fg_gt_boxes,
            fg_box_logits |-> acc.fg_box_logits \o one.fg_box_logits]

(* the shortcut branch: the sum of the means of six tensors *)
ShortcutLoss(h, inf) ==
  [status |-> "ok",
   total_loss |-> <<inf.proposal_labels, h.proposal_boxes, inf.proposal_fg_boxes,
                    inf.gt_boxes, h.bbox_regression_weights, h.label_logits>>]

(* the body of losses once the assertion has passed *)
LossesBody(h, inf, batch_size_per_gpu, shortcut) ==
  IF shortcut THEN ShortcutLoss(h, inf)
  ELSE LET all == AllImages(h, inf, batch_size_per_gpu)
       IN  IF ~all.shape_ok
           THEN [status |-> "error", what |-> "encode_bbox_target shapes differ"]
           ELSE boxclass_losses(all.labels, all.label_logits, all.encoded_fg_gt_boxes,
                                all.fg_box_logits, Slots(h))

-----------------------------------------------------------------------------
(* memoized_method and the methods of BoxClassHead *)

MemoKeyArgsOnly(method, args, h, inf) == <<method, args>>
(* the key a result is stored under: the method, its arguments and the    *)
(* inputs the result is computed from                                      *)
MemoKey(method, args, h, inf) == <<method, args, h, inf>>

(* a memoized call: the stored result when the key is known; else the     *)
(* method runs, and its value is stored unless it raised                   *)
Memoized(method, args, value, raised) ==
  LET key == MemoKey(method, args, head, info)
  IN  IF key \in DOMAIN cache
      THEN /\ ret' = [method |-> method, args |-> args, status |-> "ok", value |-> cache[key]]
           /\ cache' = cache
      ELSE IF raised
      THEN /\ ret' = [method |-> method, args |-> args, status |-> "error", value |-> value]
           /\ cache' = cache
      ELSE /\ ret' = [method |-> method, args |-> args, status |-> "ok", value |-> value]
           /\ cache' = cache @@ (key :> value)

FlagNotSet == FALSE
(* self.training_info_available = True *)
FlagSet == TRUE

AddTrainingInfo(inf) ==
  /\ info' = inf
  /\ training_info_available' = FlagSet
  /\ ret' = [method |-> "add_training_info", args |-> <<>>, status |-> "ok", value |-> "None"]
  /\ ncalls' = ncalls + 1
  /\ UNCHANGED <<head, cache>>

(* assert self.training_info_available *)
AssertTrainingInfo(flag) == flag

Losses(batch_size_per_gpu, shortcut) ==
  /\ IF AssertTrainingInfo(training_info_available)
     THEN Memoized("losses", <<batch_size_per_gpu, shortcut>>,
                   LossesBody(head, info, batch_size_per_gpu, shortcut),
                   LossesBody(head, info, batch_size_per_gpu, shortcut).status = "error")
     ELSE /\ ret' = [method |-> "losses", args |-> <<batch_size_per_gpu, shortcut>>,
                     status |-> "error", value |-> "AssertionError"]
          /\ cache' = cache
  /\ ncalls' = ncalls + 1
  /\ UNCHANGED <<head, info, training_info_available>>

(* decode_bbox_target pairs each regression row with one anchor row *)
ShapesAgree(box_predictions, anchors) ==
  \A p \in Props : DOMAIN box_predictions[p] = DOMAIN anchors[p]

(* decode_bbox_target(box_predictions, anchors): one decoded box per      *)
(* (proposal, class slot) pair, in the shape of the anchors                *)
DecodeBboxTarget(box_predictions, anchors) ==
  IF ShapesAgree(box_predictions, anchors)
  THEN [p \in Props |-> [c \in DOMAIN anchors[p] |-> <<"dec", box_predictions[p][c], anchors[p][c]>>]]
  ELSE <<>>

(* self.box_logits / self.bbox_regression_weights *)
Unweighted(h) == [p \in Props |-> [c \in DOMAIN h.box_logits[p] |-> <<h.box_logits[p][c], "/", h.bbox_regression_weights>>]]

(* tf.tile(tf.expand_dims(x, 1), [1, cfg.DATA.NUM_CLASS, 1]) *)
TileAnchors(x) == [p \in Props |-> [c \in 0 .. (NUM_CLASS - 1) |-> x[p]]]

DecodedOutputBoxesBatch ==
  /\ Memoized("decoded_output_boxes_batch", <<>>,
       LET batch_ids == [p \in Props |-> head.proposal_boxes[p].img]
           nobatch_proposal_boxes == [p \in Props |-> head.proposal_boxes[p].box]
           anchors == TileAnchors(nobatch_proposal_boxes)
       IN  [anchors |-> anchors,
            decoded_boxes |-> DecodeBboxTarget(Unweighted(head), anchors),
            batch_ids |-> batch_ids],
       ~ShapesAgree(Unweighted(head), TileAnchors([p \in Props |-> head.proposal_boxes[p].box])))
  /\ ncalls' = ncalls + 1
  /\ UNCHANGED <<head, info, training_info_available>>

DecodedOutputBoxes ==
  /\ Memoized("decoded_output_boxes", <<>>,
       LET anchors == TileAnchors(head.proposal_boxes)
       IN  [anchors |-> anchors,
            decoded_boxes |-> DecodeBboxTarget(Unweighted(head), anchors)],
       ~ShapesAgree(Unweighted(head), TileAnchors(head.proposal_boxes)))
  /\ ncalls' = ncalls + 1
  /\ UNCHANGED <<head, info, training_info_available>>

OutputScores ==
  /\ Memoized("output_scores", <<"None">>, <<"softmax", head.label_logits>>, FALSE)
  /\ ncalls' = ncalls + 1
  /\ UNCHANGED <<head, info, training_info_available>>

PredIdle ==
  /\ boxes = <<>>
  /\ scores = <<>>
  /\ thresh = 0
  /\ ppc = "idle"
  /\ final = NoOutput

Constructed(h) ==
  /\ PredIdle
  /\ head = h
  /\ info = NoInfo
  /\ training_info_available = FALSE
  /\ cache = <<>>
  /\ ret = NoRet
  /\ ncalls = 0

-----------------------------------------------------------------------------
(* One training step: the head is built on any flattened batch, the       *)
(* training information is attached, the losses are computed.              *)

(* a flattened batch: every row tagged with an image of the batch, but   *)
(* for at most one stray row that carries the tag BatchSize                *)
BatchTags ==
  { [p \in Props |-> IF p = stray THEN BatchSize ELSE tag[p]] :
      tag \in [Props -> Images], stray \in Props \cup {NumBoxes} }

LossInit ==
  \E K \in {1, NUM_CLASS}, tag \in BatchTags :
    Constructed(BoxClassHead(K, tag))

LossAttach ==
  /\ ncalls = 0
  /\ \E lbl \in [Props -> Cols] : AddTrainingInfo(TrainingInfo(head, lbl, GtSel(head)))
  /\ UNCHANGED pvars

LossCompute ==
  /\ ncalls = 1
  /\ Losses(BatchSize, FALSE)
  /\ UNCHANGED pvars

LossNext == LossAttach \/ LossCompute

LossSpec == LossInit /\ [][LossNext]_vars

-----------------------------------------------------------------------------
(* Any sequence of at most MaxCalls method calls on one head. *)

(* the training information of a step in which every proposal got label l *)
StepInfos(h) == { TrainingInfo(h, [p \in Props |-> l], GtSel(h)) : l \in Cols }

HeadInit ==
  \E K \in {1, NUM_CLASS} :
    Constructed(BoxClassHead(K, [p \in Props |-> p % BatchSize]))

CallAddTrainingInfo ==
  /\ ncalls < MaxCalls
  /\ \E inf \in StepInfos(head) : AddTrainingInfo(inf)
  /\ UNCHANGED pvars

CallLosses ==
  /\ ncalls < MaxCalls
  /\ \E b \in 1 .. BatchSize, shortcut \in BOOLEAN : Losses(b, shortcut)
  /\ UNCHANGED pvars

CallDecodedOutputBoxesBatch == ncalls < MaxCalls /\ DecodedOutputBoxesBatch /\ UNCHANGED pvars

CallDecodedOutputBoxes == ncalls < MaxCalls /\ DecodedOutputBoxes /\ UNCHANGED pvars

CallOutputScores == ncalls < MaxCalls /\ OutputScores /\ UNCHANGED pvars

HeadNext ==
  \/ CallAddTrainingInfo
  \/ CallLosses
  \/ CallDecodedOutputBoxesBatch
  \/ CallDecodedOutputBoxes
  \/ CallOutputScores

HeadSpec == HeadInit /\ [][HeadNext]_vars

-----------------------------------------------------------------------------
(* Claims about one training step (LossSpec) *)

LossReturned == ret.method = "losses" /\ ret.args[2] = FALSE
InRange == \A p \in Props : head.proposal_boxes[p].img \in Images
Labels == info.proposal_labels
Tag(p) == head.proposal_boxes[p].img

(* C5: a proposal row or foreground row whose image index is outside      *)
(* [0, batch_size_per_gpu) makes losses fail; it is never silently left    *)
(* out of what is passed to boxclass_losses.                               *)
C5_OutOfRangeFailsFast ==
  (LossReturned /\ ~InRange) => ret.status = "error"

(* C8: with at least one proposal and no label > 0, false_negative and    *)
(* fg_accuracy are exactly 0, num_fg is 0 and the box loss gathers zero   *)
(* rows without an error, for a per-class and for a class-agnostic head.  *)
C8_ZeroForeground ==
  LossReturned =>
    LET all == AllImages(head, info, BatchSize)
    IN  (Len(all.labels) >= 1 /\ \A k \in 1 .. Len(all.labels) : ~(all.labels[k] > 0)) =>
          /\ ret.status = "ok"
          /\ ret.value.false_negative = Zero
          /\ ret.value.fg_accuracy = Zero
          /\ ret.value.num_fg = 0
          /\ Len(ret.value.box_loss.pred) = 0
          /\ Len(ret.value.box_loss.target) = 0

C8_Witness ==
  /\ LossReturned /\ ret.status = "ok"
  /\ Slots(head) > 1
  /\ Len(ret.value.labels) >= 1
  /\ ret.value.num_fg = 0
  /\ ret.value.false_negative = Zero

C8_WitnessClassAgnostic ==
  /\ LossReturned /\ ret.status = "ok"
  /\ Slots(head) = 1
  /\ Len(ret.value.labels) >= 1
  /\ ret.value.num_fg = 0
  /\ ret.value.fg_accuracy = Zero

(* the foreground proposals of the images 0 .. n-1, image by image, in    *)
(* row order within an image                                               *)
RECURSIVE FgByImage(_)
FgByImage(n) ==
  IF n = 0 THEN <<>>
  ELSE FgByImage(n - 1) \o SelectSeq(PropSeq, LAMBDA p : Tag(p) = n - 1 /\ Labels[p] > 0)

(* the ground-truth box matched to foreground proposal p *)
GtOf(p) ==
  LET before == Len(SelectSeq(PropSeq, LAMBDA q : q <= p /\ Tag(q) = Tag(p) /\ Labels[q] > 0))
  IN  info.gt_boxes[Tag(p)][info.proposal_gt_id_for_each_fg[Tag(p)][before]]

(* C10: for a per-class head and image indices all in range, the k-th row *)
(* fed to the Huber loss is box_logits[p, label(p)] of the proposal p that *)
(* owns the k-th positive label, and the k-th target is the encoding of    *)
(* p's matched ground-truth box against p's own box.                       *)
C10_RowsAligned ==
  (LossReturned /\ InRange /\ Slots(head) > 1) =>
    LET fg == FgByImage(BatchSize)
        pos == FgInds(ret.value.labels)
    IN  /\ ret.status = "ok"
        /\ Len(pos) = Len(fg)
        /\ Len(ret.value.box_loss.pred) = Len(fg)
        /\ Len(ret.value.box_loss.target) = Len(fg)
        /\ \A k \in 1 .. Len(fg) :
             /\ ret.value.labels[pos[k]] = Labels[fg[k]]
             /\ ret.value.label_loss.logits[pos[k]] = head.label_logits[fg[k]]
             /\ ret.value.box_loss.pred[k] = head.box_logits[fg[k]][Labels[fg[k]]]
             /\ ret.value.box_loss.target[k] =
                  <<"enc", GtOf(fg[k]), head.proposal_boxes[fg[k]].box, head.bbox_regression_weights>>

C10_Witness ==
  /\ LossReturned /\ InRange /\ Slots(head) > 1 /\ ret.status = "ok"
  /\ ret.value.num_fg >= 2
  /\ \E p, q \in Props : p < q /\ Tag(p) > Tag(q) /\ Labels[p] > 0 /\ Labels[q] > 0 /\ Labels[p] # Labels[q]
  /\ \E k \in 1 .. ret.value.num_fg : ret.value.box_loss.target[k][2][3] = 1

-----------------------------------------------------------------------------
(* Claims about sequences of method calls (HeadSpec) *)

LossesCached == \E key \in DOMAIN cache : key[1] = "losses"

C6_Inv ==
  /\ training_info_available <=> (info # NoInfo)
  /\ (ret.method = "losses" /\ info = NoInfo) => ret.status = "error"
  /\ info = NoInfo => ~LossesCached
  /\ (ret.method = "losses" /\ ret.status = "ok") => training_info_available

(* C6: losses called before the first add_training_info raises and        *)
(* produces no loss value; training_info_available is false until the      *)
(* first add_training_info and true ever after; only then does losses      *)
(* return a result.                                                        *)
C6_LossesNeedTrainingInfo ==
  [](C6_Inv) /\ [][training_info_available => training_info_available']_vars

C6_Witness ==
  /\ ret.method = "losses" /\ ret.status = "error"
  /\ ~training_info_available
  /\ ncalls >= 2

(* C7: a memoized method never returns a stale result: what losses (and   *)
(* the decode and score methods) returns is what the method computes from  *)
(* the data attached to the head at the time of the call.                  *)
C7_NoStaleResult ==
  /\ (ret.method = "losses" /\ ret.status = "ok") =>
        ret.value = LossesBody(head, info, ret.args[1], ret.args[2])
  /\ (ret.method = "output_scores" /\ ret.status = "ok") =>
        ret.value = <<"softmax", head.label_logits>>
  /\ (ret.method = "decoded_output_boxes_batch" /\ ret.status = "ok") =>
        ret.value.decoded_boxes =
          DecodeBboxTarget(Unweighted(head), TileAnchors([p \in Props |-> head.proposal_boxes[p].box]))
  /\ (ret.method = "decoded_output_boxes" /\ ret.status = "ok") =>
        ret.value.decoded_boxes = DecodeBboxTarget(Unweighted(head), TileAnchors(head.proposal_boxes))

C7_Witness ==
  /\ ret.method = "losses" /\ ret.status = "ok"
  /\ \E key \in DOMAIN cache :
       /\ key[1] = "losses"
       /\ key[2] = ret.args
       /\ key[4] # info
       /\ cache[key] # ret.value

(* C9: both decode methods tile each proposal box over exactly the K      *)
(* class slots of box_logits, so anchors and decoded boxes are N x K x 4   *)
(* for a per-class and for a class-agnostic head; the batch variant        *)
(* anchors on the 4 coordinates only and returns the image index of each   *)
(* proposal, in proposal order.                                            *)
C9_AnchorsPerSlot ==
  ret.method \in {"decoded_output_boxes_batch", "decoded_output_boxes"} =>
    /\ ret.status = "ok"
    /\ \A p \in Props :
         /\ DOMAIN ret.value.anchors[p] = DOMAIN head.box_logits[p]
         /\ DOMAIN ret.value.decoded_boxes[p] = DOMAIN head.box_logits[p]
    /\ ret.method = "decoded_output_boxes_batch" =>
         /\ \A p \in Props : \A c \in DOMAIN ret.value.anchors[p] :
              ret.value.anchors[p][c] = head.proposal_boxes[p].box
         /\ ret.value.batch_ids = [p \in Props |-> head.proposal_boxes[p].img]
====
